---- MODULE Spec2Model ----
(* Bear Notes (BearNotesApp, a single React client component): the note    *)
(* list, its persistence in localStorage under the key "bear-notes", the   *)
(* tag extractor and the note filter.                                      *)
(*                                                                         *)
(* A JavaScript string is a sequence of one-character strings, a Date is   *)
(* its time value in milliseconds, null is the record Null.                *)
EXTENDS Integers, Sequences, FiniteSets, TLC

VARIABLES
  notes,         \* useState<Note[]>([])
  selectedNote,  \* useState<Note | null>(null)
  searchTerm,    \* useState("")
  selectedTag,   \* useState<string>("all")
  isEditing,     \* useState(false)
  editContent,   \* useState("")
  localStorage,  \* the value localStorage holds under "bear-notes"
  now,           \* the clock Date.now() / new Date() reads
  phase,         \* where the component is in its life: mount effects, ready, crashed
  pending,       \* state updates queued by the mount's load effect, not yet rendered
  lastOp,        \* history: what the last step did, and the note id it was given
  deleted,       \* history: ids deleteNote removed and createNote has not issued again
  ops,           \* history: how many handler calls and reloads have been taken
  editOrigin     \* history: the id of the note editContent was started for

vars == << notes, selectedNote, searchTerm, selectedTag, isEditing, editContent,
           localStorage, now, phase, pending, lastOp, deleted, ops, editOrigin >>

----------------------------------------------------------------------------
(* Bounds *)

\* createNote is offered while the list is shorter than this
MaxNotes == 2
\* the clock runs from 0 to this
MaxClock == 1
\* handler calls and reloads in one behaviour
MaxOps == 5
\* the longest note list the filter is applied to
MaxFilterNotes == 2
\* the longest text typed into the editor, when every text is tried
MaxTextLen == 4

----------------------------------------------------------------------------
(* Strings *)

Null == [null |-> TRUE]

EmptyString == << >>

UpperCase == << "A", "B", "C", "D", "E", "F", "G", "H", "I", "J", "K", "L", "M",
                "N", "O", "P", "Q", "R", "S", "T", "U", "V", "W", "X", "Y", "Z" >>
LowerCase == << "a", "b", "c", "d", "e", "f", "g", "h", "i", "j", "k", "l", "m",
                "n", "o", "p", "q", "r", "s", "t", "u", "v", "w", "x", "y", "z" >>
Digits == << "0", "1", "2", "3", "4", "5", "6", "7", "8", "9" >>

Range(s) == { s[i] : i \in 1..Len(s) }

\* \w of a JavaScript regular expression: [A-Za-z0-9_]
WordChars == Range(UpperCase) \cup Range(LowerCase) \cup Range(Digits) \cup {"_"}
\* [\w-]
TagChars == WordChars \cup {"-"}
\* \s, as far as the model's texts have it
WhiteSpace == {" ", "\n", "\t"}

\* String.prototype.toLowerCase
toLowerCaseChar(c) ==
  IF c \in Range(UpperCase)
    THEN LowerCase[CHOOSE i \in 1..Len(UpperCase) : UpperCase[i] = c]
    ELSE c
toLowerCase(s) == [i \in 1..Len(s) |-> toLowerCaseChar(s[i])]

\* String.prototype.includes
includes(s, t) ==
  \E i \in 0..(Len(s) - Len(t)) : SubSeq(s, i + 1, i + Len(t)) = t

\* Array.prototype.includes on an array of strings
arrayIncludes(a, x) == \E i \in 1..Len(a) : a[i] = x

\* Number.prototype.toString, base 10, of a non-negative integer
RECURSIVE toString(_)
toString(n) ==
  IF n < 10 THEN << Digits[n + 1] >>
  ELSE toString(n \div 10) \o << Digits[(n % 10) + 1] >>

Min(S) == CHOOSE x \in S : \A y \in S : x <= y

\* String.prototype.split("\n")[0]: the text before the first line feed
firstLine(s) ==
  LET feeds == { i \in 1..Len(s) : s[i] = "\n" }
  IN  IF feeds = {} THEN s ELSE SubSeq(s, 1, Min(feeds) - 1)

\* s.replace(/^\s*/, ""): s from its first character that is not white space
dropWhiteSpace(s) ==
  LET rest == { i \in 1..Len(s) : s[i] \notin WhiteSpace }
  IN  IF rest = {} THEN << >> ELSE SubSeq(s, Min(rest), Len(s))

\* s.replace(/^#\s*/, "")
stripHeading(s) ==
  IF s # << >> /\ Head(s) = "#" THEN dropWhiteSpace(Tail(s)) ELSE s

UntitledNote == << "U", "n", "t", "i", "t", "l", "e", "d", " ", "N", "o", "t", "e" >>

\* a || b that keeps a falsy first operand
orElseKeepingFirst(a, b) == a

\* first operand unless it is falsy (the empty string): a || b
orElse(a, b) == IF a = EmptyString THEN b ELSE a

\* the title saveNote derives from the edit buffer
deriveTitle(content) == orElse(stripHeading(firstLine(content)), UntitledNote)

----------------------------------------------------------------------------
(* Tag extractor *)

\* the index after the longest run of [\w-] that starts at index i
tagEnd(s, i) ==
  Min({ j \in i..(Len(s) + 1) : j > Len(s) \/ s[j] \notin TagChars })

\* where /#[\w-]+/g matches: at every # that a [\w-] follows (a match holds
\* no #, so no match swallows the start of another)
matchStarts(s) ==
  { i \in 1..Len(s) : s[i] = "#" /\ i < Len(s) /\ s[i + 1] \in TagChars }

\* the elements of a set of integers in increasing order
sorted(S) ==
  [k \in 1..Cardinality(S) |->
     CHOOSE x \in S : Cardinality({ y \in S : y < x }) = k - 1]

\* content.match(/#[\w-]+/g): the matches, left to right
matchTags(s) ==
  LET starts == sorted(matchStarts(s))
  IN  [k \in 1..Len(starts) |-> SubSeq(s, starts[k], tagEnd(s, starts[k] + 1) - 1)]

extractTags(content) ==
  LET matches == matchTags(content)
  IN  [k \in 1..Len(matches) |-> toLowerCase(Tail(matches[k]))]

----------------------------------------------------------------------------
(* Dates and JSON *)

\* the part of an ISO timestamp before the milliseconds, for an instant in
\* the first second of the epoch
IsoPrefix == << "1", "9", "7", "0", "-", "0", "1", "-", "0", "1", "T", "0", "0", ":", "0", "0", ":", "0", "0", "." >>

digitValue(d) == (CHOOSE i \in 1..Len(Digits) : Digits[i] = d) - 1

\* n as decimal digits, left-padded with zeros to width w
RECURSIVE padStart(_, _)
padStart(s, w) == IF Len(s) >= w THEN s ELSE padStart(<< "0" >> \o s, w)

\* Date.prototype.toISOString (what JSON.stringify writes for a Date)
toISOString(t) == IsoPrefix \o padStart(toString(t), 3) \o << "Z" >>

RECURSIVE parseDigits(_)
parseDigits(s) ==
  IF s = << >> THEN 0
  ELSE 10 * parseDigits(SubSeq(s, 1, Len(s) - 1)) + digitValue(s[Len(s)])

\* new Date that reads the timestamp to the second
newDateToTheSecond(iso) == 0

\* new Date(isoString): the time value of the timestamp
newDate(iso) == parseDigits(SubSeq(iso, Len(IsoPrefix) + 1, Len(iso) - 1))

\* one note as JSON.stringify writes it
stringifyNote(note) ==
  [note EXCEPT !.createdAt = toISOString(note.createdAt),
               !.updatedAt = toISOString(note.updatedAt)]

\* JSON.stringify(notes): the stored text of a note list
stringify(ns) == [json |-> [i \in 1..Len(ns) |-> stringifyNote(ns[i])]]

\* a stored text JSON.parse rejects
InvalidJson == [text |-> "not json"]

\* parseNotes that puts a welcome note before the stored notes
parseNotesAfterWelcome(saved) ==
  << [ id |-> << "w", "e", "l", "c", "o", "m", "e" >>, title |-> << "W" >>,
       content |-> << >>, tags |-> << >>, createdAt |-> 0, updatedAt |-> 0,
       isStarred |-> TRUE, isArchived |-> FALSE ] >> \o
  [i \in 1..Len(saved.json) |->
     [saved.json[i] EXCEPT !.createdAt = newDate(saved.json[i].createdAt),
                           !.updatedAt = newDate(saved.json[i].updatedAt)]]

\* JSON.parse(savedNotes).map(note => ({...note, createdAt: new Date(..), ..}))
parseNotes(saved) ==
  [i \in 1..Len(saved.json) |->
     [saved.json[i] EXCEPT !.createdAt = newDate(saved.json[i].createdAt),
                           !.updatedAt = newDate(saved.json[i].updatedAt)]]

----------------------------------------------------------------------------
(* Notes *)

WelcomeId == << "w", "e", "l", "c", "o", "m", "e" >>
WelcomeTitle == << "W", "e", "l", "c", "o", "m", "e", " ", "t", "o", " ", "B", "e", "a", "r", " ", "N", "o", "t", "e", "s" >>
\* the grave accent, which a string of this language cannot hold
Backtick == "grave"
\* the onboarding text; each code point of its four emoji stands as "?"
WelcomeContent ==
  << "#", " ", "W", "e", "l", "c", "o", "m", "e", " ", "t", "o", " ", "B", "e", "a",
     "r", " ", "N", "o", "t", "e", "s", "!", " ", "?", "\n", "\n", "T", "h", "i", "s",
     " ", "i", "s", " ", "y", "o", "u", "r", " ", "p", "e", "r", "s", "o", "n", "a",
     "l", " ", "n", "o", "t", "e", " ", "h", "o", "s", "t", "i", "n", "g", " ", "p",
     "l", "a", "t", "f", "o", "r", "m", " ", "i", "n", "s", "p", "i", "r", "e", "d",
     " ", "b", "y", " ", "B", "e", "a", "r", ".", "\n", "\n", "#", "#", " ", "F", "e",
     "a", "t", "u", "r", "e", "s", "\n", "-", " ", "*", "*", "M", "a", "r", "k", "d",
     "o", "w", "n", " ", "s", "u", "p", "p", "o", "r", "t", "*", "*", " ", "f", "o",
     "r", " ", "b", "e", "a", "u", "t", "i", "f", "u", "l", " ", "f", "o", "r", "m",
     "a", "t", "t", "i", "n", "g", "\n", "-", " ", "*", "*", "T", "a", "g", " ", "o",
     "r", "g", "a", "n", "i", "z", "a", "t", "i", "o", "n", "*", "*", " ", "u", "s",
     "i", "n", "g", " ", "#", "h", "a", "s", "h", "t", "a", "g", "s", "\n", "-", " ",
     "*", "*", "Q", "u", "i", "c", "k", " ", "s", "e", "a", "r", "c", "h", "*", "*",
     " ", "t", "o", " ", "f", "i", "n", "d", " ", "a", "n", "y", "t", "h", "i", "n",
     "g", " ", "i", "n", "s", "t", "a", "n", "t", "l", "y", "\n", "-", " ", "*", "*",
     "S", "t", "a", "r", " ", "i", "m", "p", "o", "r", "t", "a", "n", "t", " ", "n",
     "o", "t", "e", "s", "*", "*", " ", "?", "\n", "-", " ", "*", "*", "A", "r", "c",
     "h", "i", "v", "e", " ", "o", "l", "d", " ", "n", "o", "t", "e", "s", "*", "*",
     " ", "?", "\n", "\n", "#", "#", " ", "G", "e", "t", "t", "i", "n", "g", " ", "S",
     "t", "a", "r", "t", "e", "d", "\n", "1", ".", " ", "C", "r", "e", "a", "t", "e",
     " ", "a", " ", "n", "e", "w", " ", "n", "o", "t", "e", " ", "w", "i", "t", "h",
     " ", "t", "h", "e", " ", "+", " ", "b", "u", "t", "t", "o", "n", "\n", "2", ".",
     " ", "U", "s", "e", " ", "#", "t", "a", "g", "s", " ", "t", "o", " ", "o", "r",
     "g", "a", "n", "i", "z", "e", " ", "y", "o", "u", "r", " ", "t", "h", "o", "u",
     "g", "h", "t", "s", "\n", "3", ".", " ", "S", "t", "a", "r", " ", "i", "m", "p",
     "o", "r", "t", "a", "n", "t", " ", "n", "o", "t", "e", "s", " ", "f", "o", "r",
     " ", "q", "u", "i", "c", "k", " ", "a", "c", "c", "e", "s", "s", "\n", "4", ".",
     " ", "U", "s", "e", " ", "t", "h", "e", " ", "s", "e", "a", "r", "c", "h", " ",
     "t", "o", " ", "f", "i", "n", "d", " ", "a", "n", "y", "t", "h", "i", "n", "g",
     " ", "i", "n", "s", "t", "a", "n", "t", "l", "y", "\n", "\n", "#", "#", " ", "M",
     "a", "r", "k", "d", "o", "w", "n", " ", "E", "x", "a", "m", "p", "l", "e", "s",
     "\n", "Y", "o", "u", " ", "c", "a", "n", " ", "u", "s", "e", " ", "*", "*", "b",
     "o", "l", "d", "*", "*", ",", " ", "*", "i", "t", "a", "l", "i", "c", "*", ",",
     " ", "a", "n", "d", " ", Backtick, "c", "o", "d", "e", Backtick, " ", "f", "o", "r", "m",
     "a", "t", "t", "i", "n", "g", ".", "\n", "\n", "#", "#", "#", " ", "L", "i", "s",
     "t", "s", "\n", "-", " ", "I", "t", "e", "m", " ", "o", "n", "e", "\n", "-", " ",
     "I", "t", "e", "m", " ", "t", "w", "o", "\n", "-", " ", "I", "t", "e", "m", " ",
     "t", "h", "r", "e", "e", "\n", "\n", "#", "#", "#", " ", "T", "a", "g", "s", "\n",
     "A", "d", "d", " ", "t", "a", "g", "s", " ", "a", "n", "y", "w", "h", "e", "r",
     "e", " ", "i", "n", " ", "y", "o", "u", "r", " ", "n", "o", "t", "e", "s", ":",
     " ", "#", "p", "e", "r", "s", "o", "n", "a", "l", " ", "#", "w", "o", "r", "k",
     " ", "#", "i", "d", "e", "a", "s", "\n", "\n", "H", "a", "p", "p", "y", " ", "n",
     "o", "t", "e", "-", "t", "a", "k", "i", "n", "g", "!", " ", "?", "\n", "\n", "#",
     "w", "e", "l", "c", "o", "m", "e", " ", "#", "g", "e", "t", "t", "i", "n", "g",
     "-", "s", "t", "a", "r", "t", "e", "d" >>
WelcomeTags == << << "w", "e", "l", "c", "o", "m", "e" >>, << "g", "e", "t", "t", "i", "n", "g", "-", "s", "t", "a", "r", "t", "e", "d" >> >>

welcomeNote(t) ==
  [ id |-> WelcomeId, title |-> WelcomeTitle, content |-> WelcomeContent,
    tags |-> WelcomeTags, createdAt |-> t, updatedAt |-> t,
    isStarred |-> TRUE, isArchived |-> FALSE ]

newNote(t) ==
  [ id |-> toString(t), title |-> UntitledNote, content |-> EmptyString,
    tags |-> << >>, createdAt |-> t, updatedAt |-> t,
    isStarred |-> FALSE, isArchived |-> FALSE ]

\* {...note, ...updates}
merge(note, updates) ==
  [f \in DOMAIN note |-> IF f \in DOMAIN updates THEN updates[f] ELSE note[f]]

ids(ns) == { ns[i].id : i \in 1..Len(ns) }

\* notes.find((n) => n.id === noteId); Null stands for undefined
find(ns, noteId) ==
  IF noteId \in ids(ns)
    THEN ns[CHOOSE i \in 1..Len(ns) :
              ns[i].id = noteId /\ \A j \in 1..(i - 1) : ns[j].id # noteId]
    ELSE Null

----------------------------------------------------------------------------
(* Renderer *)

\* content.split("\n"): the texts between the line feeds
split(s) ==
  LET feeds  == sorted({ i \in 1..Len(s) : s[i] = "\n" })
      from(k) == IF k = 1 THEN 1 ELSE feeds[k - 1] + 1
      to(k)   == IF k = Len(feeds) + 1 THEN Len(s) ELSE feeds[k] - 1
  IN  [k \in 1..(Len(feeds) + 1) |-> SubSeq(s, from(k), to(k))]

\* String.prototype.startsWith
startsWith(s, prefix) ==
  Len(s) >= Len(prefix) /\ SubSeq(s, 1, Len(prefix)) = prefix

\* String.prototype.slice(n)
slice(s, n) == SubSeq(s, n + 1, Len(s))

\* String.prototype.trim
trim(s) ==
  LET rest == { i \in 1..Len(s) : s[i] \notin WhiteSpace }
  IN  IF rest = {} THEN EmptyString
      ELSE SubSeq(s, Min(rest), CHOOSE i \in rest : \A j \in rest : j <= i)

\* the markup the paragraphs get, each piece one element of the fragment
StrongOpen  == "<strong>"
StrongClose == "</strong>"
EmOpen      == "<em>"
EmClose     == "</em>"
CodeOpen    == "<code class=\"bg-gray-100 px-1 py-0.5 rounded text-sm\">"
CodeClose   == "</code>"
SpanOpen    == "<span class=\"text-blue-600 font-medium\">"
SpanClose   == "</span>"

\* mark stands at index i of s
standsAt(s, mark, i) ==
  i + Len(mark) - 1 <= Len(s) /\ SubSeq(s, i, i + Len(mark) - 1) = mark

\* s.replace(/mark(.*?)mark/g, open $1 close): left to right, each opening
\* mark with the nearest mark after it
RECURSIVE replaceBetween(_, _, _, _)
replaceBetween(s, mark, open, close) ==
  LET opens == { i \in 1..Len(s) : standsAt(s, mark, i) }
  IN  IF opens = {} THEN s
      ELSE LET i      == Min(opens)
               closes == { j \in (i + Len(mark))..Len(s) : standsAt(s, mark, j) }
           IN  IF closes = {} THEN s
               ELSE LET j == Min(closes)
                    IN  SubSeq(s, 1, i - 1) \o << open >>
                          \o SubSeq(s, i + Len(mark), j - 1) \o << close >>
                          \o replaceBetween(SubSeq(s, j + Len(mark), Len(s)),
                                            mark, open, close)

\* s.replace(/#([\w-]+)/g, span # $1 /span)
RECURSIVE replaceTags(_)
replaceTags(s) ==
  IF s = << >> THEN s
  ELSE IF standsAt(s, << "#" >>, 1) /\ Len(s) > 1 /\ s[2] \in TagChars
    THEN LET end == tagEnd(s, 2)
         IN  << SpanOpen >> \o SubSeq(s, 1, end - 1) \o << SpanClose >>
               \o replaceTags(SubSeq(s, end, Len(s)))
    ELSE << Head(s) >> \o replaceTags(Tail(s))

\* bold, then italic, then code, then tags
formattedLine(line) ==
  replaceTags(
    replaceBetween(
      replaceBetween(
        replaceBetween(line, << "*", "*" >>, StrongOpen, StrongClose),
        << "*" >>, EmOpen, EmClose),
      << Backtick >>, CodeOpen, CodeClose))

\* the element of a line whose h2 keeps what h1 cuts off
renderLineCuttingTwo(line) ==
  IF startsWith(line, << "#", " " >>)
    THEN [ type |-> "h1", text |-> slice(line, 2) ]
  ELSE IF startsWith(line, << "#", "#", " " >>)
    THEN [ type |-> "h2", text |-> slice(line, 2) ]
  ELSE IF startsWith(line, << "#", "#", "#", " " >>)
    THEN [ type |-> "h3", text |-> slice(line, 4) ]
  ELSE IF startsWith(line, << "-", " " >>)
    THEN [ type |-> "li", text |-> slice(line, 2) ]
  ELSE IF trim(line) = EmptyString
    THEN [ type |-> "br" ]
  ELSE [ type |-> "p", html |-> formattedLine(line) ]

\* the element renderContent's map callback returns for a line
renderLine(line) ==
  IF startsWith(line, << "#", " " >>)
    THEN [ type |-> "h1", text |-> slice(line, 2) ]
  ELSE IF startsWith(line, << "#", "#", " " >>)
    THEN [ type |-> "h2", text |-> slice(line, 3) ]
  ELSE IF startsWith(line, << "#", "#", "#", " " >>)
    THEN [ type |-> "h3", text |-> slice(line, 4) ]
  ELSE IF startsWith(line, << "-", " " >>)
    THEN [ type |-> "li", text |-> slice(line, 2) ]
  ELSE IF trim(line) = EmptyString
    THEN [ type |-> "br" ]
  ELSE [ type |-> "p", html |-> formattedLine(line) ]

renderContent(content) ==
  LET lines == split(content)
  IN  [index \in 1..Len(lines) |-> renderLine(lines[index])]

----------------------------------------------------------------------------
(* Filter *)

All == << "a", "l", "l" >>
Starred == << "s", "t", "a", "r", "r", "e", "d" >>
Archived == << "a", "r", "c", "h", "i", "v", "e", "d" >>
Untagged == << "u", "n", "t", "a", "g", "g", "e", "d" >>

\* matchesSearch comparing the note's text as written, the term lowercased
matchesSearchCaseSensitive(note, term) ==
  \/ includes(note.title, toLowerCase(term))
  \/ includes(note.content, toLowerCase(term))
  \/ \E k \in 1..Len(note.tags) : includes(note.tags[k], toLowerCase(term))

\* the search predicate of filteredNotes
matchesSearch(note, term) ==
  \/ includes(toLowerCase(note.title), toLowerCase(term))
  \/ includes(toLowerCase(note.content), toLowerCase(term))
  \/ \E k \in 1..Len(note.tags) :
       includes(toLowerCase(note.tags[k]), toLowerCase(term))

\* keepsNote without "|| selectedTag === 'archived'" in its last line
keepsNoteHidingArchived(note, tag, term) ==
  IF tag = Starred /\ ~note.isStarred THEN FALSE
  ELSE IF tag = Archived /\ ~note.isArchived THEN FALSE
  ELSE IF tag = Untagged /\ Len(note.tags) > 0 THEN FALSE
  ELSE IF tag \notin {All, Starred, Archived, Untagged}
          /\ ~arrayIncludes(note.tags, tag) THEN FALSE
  ELSE IF term # EmptyString THEN matchesSearch(note, term)
  ELSE ~note.isArchived

\* keepsNote whose last line lets archived notes through
keepsNoteShowingArchived(note, tag, term) ==
  IF tag = Starred /\ ~note.isStarred THEN FALSE
  ELSE IF tag = Archived /\ ~note.isArchived THEN FALSE
  ELSE IF tag = Untagged /\ Len(note.tags) > 0 THEN FALSE
  ELSE IF tag \notin {All, Starred, Archived, Untagged}
          /\ ~arrayIncludes(note.tags, tag) THEN FALSE
  ELSE IF term # EmptyString THEN matchesSearch(note, term)
  ELSE TRUE

\* the callback of notes.filter in filteredNotes
keepsNote(note, tag, term) ==
  IF tag = Starred /\ ~note.isStarred THEN FALSE
  ELSE IF tag = Archived /\ ~note.isArchived THEN FALSE
  ELSE IF tag = Untagged /\ Len(note.tags) > 0 THEN FALSE
  ELSE IF tag \notin {All, Starred, Archived, Untagged}
          /\ ~arrayIncludes(note.tags, tag) THEN FALSE
  ELSE IF term # EmptyString THEN matchesSearch(note, term)
  ELSE ~note.isArchived \/ tag = Archived

filterNotes(ns, tag, term) == SelectSeq(ns, LAMBDA note : keepsNote(note, tag, term))

filteredNotes == filterNotes(notes, selectedTag, searchTerm)

\* Array.from(new Set(notes.flatMap((note) => note.tags))), as a set
allTags == UNION { Range(notes[i].tags) : i \in 1..Len(notes) }

\* the counts the sidebar shows next to its entries
allNotesCount == Len(SelectSeq(notes, LAMBDA n : ~n.isArchived))
starredCount  == Len(SelectSeq(notes, LAMBDA n : n.isStarred /\ ~n.isArchived))
untaggedCount == Len(SelectSeq(notes, LAMBDA n : Len(n.tags) = 0 /\ ~n.isArchived))
archivedCount == Len(SelectSeq(notes, LAMBDA n : n.isArchived))
tagCount(tag) == Len(SelectSeq(notes, LAMBDA n : arrayIncludes(n.tags, tag) /\ ~n.isArchived))

----------------------------------------------------------------------------
(* Inputs *)

\* texts typed into the editor
Contents ==
  { << "#", "a", " ", "#", "A" >>,
    << "#", " " >> }

\* texts typed into the search box
SearchTerms == { EmptyString, << "a" >>, << "B" >>, << "N" >> }

\* ids the handlers are called with: every id a note can have, in the list
\* or not (the buttons pass selectedNote.id)
NoteIds == { WelcomeId } \cup { toString(t) : t \in 0..MaxClock }

----------------------------------------------------------------------------
(* Effects *)

\* the save effect that writes whatever list it sees
saveNotesEffectOfAnyList(ns, saved) == stringify(ns)

\* the save effect: runs after a render in which notes changed
saveNotesEffect(ns, saved) ==
  IF Len(ns) > 0 THEN stringify(ns) ELSE saved

Op(name, noteId) == [op |-> name, id |-> noteId]
\* what lastOp holds after a step that is no operation on the note list
Other == Op("other", EmptyString)

Init ==
  /\ notes = << >>
  /\ selectedNote = Null
  /\ searchTerm = EmptyString
  /\ selectedTag = All
  /\ isEditing = FALSE
  /\ editContent = EmptyString
  /\ localStorage \in { Null, InvalidJson }
  /\ now = 0
  /\ phase = "mount"
  /\ pending = Null
  /\ lastOp = Op("mount", EmptyString)
  /\ deleted = {}
  /\ ops = 0
  /\ editOrigin = Null

\* the load effect of the first render
LoadNotesEffect ==
  /\ phase = "mount"
  /\ IF localStorage # Null
       THEN IF localStorage = InvalidJson
              THEN /\ phase' = "crashed"
                   /\ pending' = pending
              ELSE /\ phase' = "loaded"
                   /\ pending' = [notes |-> parseNotes(localStorage)]
       ELSE /\ phase' = "loaded"
            /\ pending' = [notes |-> << welcomeNote(now) >>,
                           selectedNote |-> welcomeNote(now)]
  /\ UNCHANGED << notes, selectedNote, searchTerm, selectedTag, isEditing,
                  editContent, localStorage, now, lastOp, deleted >>
  /\ UNCHANGED ops
  /\ UNCHANGED editOrigin

\* the save effect of the first render: it sees the notes of that render
SaveNotesEffectOnMount ==
  /\ phase = "loaded"
  /\ localStorage' = saveNotesEffect(notes, localStorage)
  /\ phase' = "commit"
  /\ UNCHANGED << notes, selectedNote, searchTerm, selectedTag, isEditing,
                  editContent, now, pending, lastOp, deleted >>
  /\ UNCHANGED ops
  /\ UNCHANGED editOrigin

\* the render the load effect's setNotes asked for, and its save effect
RenderLoaded ==
  /\ phase = "commit"
  /\ notes' = pending.notes
  /\ selectedNote' = IF "selectedNote" \in DOMAIN pending
                       THEN pending.selectedNote ELSE selectedNote
  /\ localStorage' = saveNotesEffect(notes', localStorage)
  /\ pending' = Null
  /\ phase' = "ready"
  /\ lastOp' = Op("load", EmptyString)
  /\ UNCHANGED << searchTerm, selectedTag, isEditing, editContent, now, deleted >>
  /\ UNCHANGED ops
  /\ UNCHANGED editOrigin

\* the page is loaded again: component state starts over, the store stays
Reload ==
  /\ phase \in { "ready", "crashed" }
  /\ ops < MaxOps
  /\ ops' = ops + 1
  /\ notes' = << >>
  /\ selectedNote' = Null
  /\ searchTerm' = EmptyString
  /\ selectedTag' = All
  /\ isEditing' = FALSE
  /\ editContent' = EmptyString
  /\ pending' = Null
  /\ phase' = "mount"
  /\ lastOp' = Op("mount", EmptyString)
  /\ UNCHANGED << localStorage, now, deleted >>
  /\ editOrigin' = Null

\* a millisecond passes; a handler runs within one reading of the clock
Tick ==
  /\ phase = "ready"
  /\ now < MaxClock
  /\ now' = now + 1
  /\ lastOp' = Other
  /\ UNCHANGED << notes, selectedNote, searchTerm, selectedTag, isEditing,
                  editContent, localStorage, phase, pending, deleted >>
  /\ UNCHANGED ops
  /\ UNCHANGED editOrigin

----------------------------------------------------------------------------
(* Handlers *)

\* [...notes, newNote]
append(note, ns) == ns \o << note >>

\* [newNote, ...notes]
prepend(note, ns) == << note >> \o ns

createNote ==
  /\ phase = "ready"
  /\ ops < MaxOps
  /\ ops' = ops + 1
  /\ Len(notes) < MaxNotes
  /\ notes' = prepend(newNote(now), notes)
  /\ selectedNote' = newNote(now)
  /\ isEditing' = TRUE
  /\ editContent' = EmptyString
  /\ localStorage' = saveNotesEffect(notes', localStorage)
  /\ lastOp' = Op("createNote", toString(now))
  /\ deleted' = deleted \ { toString(now) }
  /\ UNCHANGED << searchTerm, selectedTag, now, phase, pending >>
  /\ editOrigin' = toString(now)

\* updatedNote that stamps createdAt as well
updatedNoteStampingCreatedAt(note, noteId, updates, t) ==
  IF note.id = noteId
    THEN [merge(note, updates) EXCEPT !.updatedAt = t, !.createdAt = t]
    ELSE note

\* updatedNote without the test of the id
updatedNoteOfAnyId(note, noteId, updates, t) ==
  [merge(note, updates) EXCEPT !.updatedAt = t]

\* what updateNote makes of one note
updatedNote(note, noteId, updates, t) ==
  IF note.id = noteId THEN [merge(note, updates) EXCEPT !.updatedAt = t] ELSE note

\* updateNote that leaves the selected note as it was
updateNoteOfListOnly(noteId, updates) ==
  /\ notes' = [i \in 1..Len(notes) |-> updatedNote(notes[i], noteId, updates, now)]
  /\ selectedNote' = selectedNote
  /\ localStorage' = saveNotesEffect(notes', localStorage)

updateNote(noteId, updates) ==
  /\ notes' = [i \in 1..Len(notes) |-> updatedNote(notes[i], noteId, updates, now)]
  /\ selectedNote' =
       IF selectedNote # Null /\ selectedNote.id = noteId
         THEN [merge(selectedNote, updates) EXCEPT !.updatedAt = now]
         ELSE selectedNote
  /\ localStorage' = saveNotesEffect(notes', localStorage)

\* the Save button is rendered while a note is selected and isEditing
saveNote ==
  /\ phase = "ready"
  /\ ops < MaxOps
  /\ ops' = ops + 1
  /\ isEditing
  /\ selectedNote # Null
  /\ updateNote(selectedNote.id,
                [ title |-> deriveTitle(editContent),
                  content |-> editContent,
                  tags |-> extractTags(editContent) ])
  /\ isEditing' = FALSE
  /\ lastOp' = Op("saveNote", selectedNote.id)
  /\ UNCHANGED << searchTerm, selectedTag, editContent, now, phase, pending, deleted >>
  /\ UNCHANGED editOrigin

\* notes.filter((note) => note.id === noteId)
onlyNote(ns, noteId) == SelectSeq(ns, LAMBDA note : note.id = noteId)

\* notes.filter((note) => note.id !== noteId)
withoutNote(ns, noteId) == SelectSeq(ns, LAMBDA note : note.id # noteId)

deleteNote(noteId) ==
  /\ phase = "ready"
  /\ ops < MaxOps
  /\ ops' = ops + 1
  /\ notes' = withoutNote(notes, noteId)
  /\ selectedNote' =
       IF selectedNote # Null /\ selectedNote.id = noteId THEN Null ELSE selectedNote
  /\ localStorage' = saveNotesEffect(notes', localStorage)
  /\ lastOp' = Op("deleteNote", noteId)
  /\ deleted' = IF noteId \in ids(notes) THEN deleted \cup { noteId } ELSE deleted
  /\ UNCHANGED << searchTerm, selectedTag, isEditing, editContent, now, phase, pending >>
  /\ UNCHANGED editOrigin

\* !notes.find((n) => n.id === noteId)?.isStarred  (!undefined is true)
toggledFlag(ns, noteId, flag) ==
  IF find(ns, noteId) = Null THEN TRUE ELSE ~find(ns, noteId)[flag]

toggleStar(noteId) ==
  /\ phase = "ready"
  /\ ops < MaxOps
  /\ ops' = ops + 1
  /\ updateNote(noteId, [ isStarred |-> toggledFlag(notes, noteId, "isStarred") ])
  /\ lastOp' = Op("toggleStar", noteId)
  /\ UNCHANGED << searchTerm, selectedTag, isEditing, editContent, now, phase,
                  pending, deleted >>
  /\ UNCHANGED editOrigin

toggleArchive(noteId) ==
  /\ phase = "ready"
  /\ ops < MaxOps
  /\ ops' = ops + 1
  /\ updateNote(noteId, [ isArchived |-> toggledFlag(notes, noteId, "isArchived") ])
  /\ lastOp' = Op("toggleArchive", noteId)
  /\ UNCHANGED << searchTerm, selectedTag, isEditing, editContent, now, phase,
                  pending, deleted >>
  /\ UNCHANGED editOrigin

\* the Edit button is rendered while a note is selected and not isEditing
startEditing ==
  /\ phase = "ready"
  /\ ops < MaxOps
  /\ ops' = ops + 1
  /\ selectedNote # Null
  /\ ~isEditing
  /\ editContent' = selectedNote.content
  /\ isEditing' = TRUE
  /\ lastOp' = Other
  /\ UNCHANGED << notes, selectedNote, searchTerm, selectedTag, localStorage, now,
                  phase, pending, deleted >>
  /\ editOrigin' = selectedNote.id

\* the Cancel button is rendered while a note is selected and isEditing
cancelEditing ==
  /\ phase = "ready"
  /\ ops < MaxOps
  /\ ops' = ops + 1
  /\ selectedNote # Null
  /\ isEditing
  /\ isEditing' = FALSE
  /\ editContent' = EmptyString
  /\ lastOp' = Other
  /\ UNCHANGED << notes, selectedNote, searchTerm, selectedTag, localStorage, now,
                  phase, pending, deleted >>
  /\ editOrigin' = Null

\* onChange of the textarea, rendered while a note is selected and isEditing
setEditContent(text) ==
  /\ phase = "ready"
  /\ ops < MaxOps
  /\ ops' = ops + 1
  /\ selectedNote # Null
  /\ isEditing
  /\ editContent' = text
  /\ lastOp' = Other
  /\ UNCHANGED << notes, selectedNote, searchTerm, selectedTag, isEditing,
                  localStorage, now, phase, pending, deleted >>
  /\ UNCHANGED editOrigin

\* the onClick that leaves the editor open
selectNoteKeepingEditor(i) ==
  /\ phase = "ready"
  /\ ops < MaxOps
  /\ ops' = ops + 1
  /\ i \in 1..Len(filteredNotes)
  /\ selectedNote' = filteredNotes[i]
  /\ isEditing' = isEditing
  /\ lastOp' = Other
  /\ UNCHANGED << notes, searchTerm, selectedTag, editContent, localStorage, now,
                  phase, pending, deleted >>
  /\ UNCHANGED editOrigin

\* onClick of an entry of the note list
selectNote(i) ==
  /\ phase = "ready"
  /\ ops < MaxOps
  /\ ops' = ops + 1
  /\ i \in 1..Len(filteredNotes)
  /\ selectedNote' = filteredNotes[i]
  /\ isEditing' = FALSE
  /\ lastOp' = Other
  /\ UNCHANGED << notes, searchTerm, selectedTag, editContent, localStorage, now,
                  phase, pending, deleted >>
  /\ UNCHANGED editOrigin

\* onChange of the search box
setSearchTerm(term) ==
  /\ phase = "ready"
  /\ searchTerm' = term
  /\ lastOp' = Other
  /\ UNCHANGED << notes, selectedNote, selectedTag, isEditing, editContent,
                  localStorage, now, phase, pending, deleted >>
  /\ UNCHANGED ops
  /\ UNCHANGED editOrigin

\* onClick of a sidebar entry
setSelectedTag(tag) ==
  /\ phase = "ready"
  /\ selectedTag' = tag
  /\ lastOp' = Other
  /\ UNCHANGED << notes, selectedNote, searchTerm, isEditing, editContent,
                  localStorage, now, phase, pending, deleted >>
  /\ UNCHANGED ops
  /\ UNCHANGED editOrigin

----------------------------------------------------------------------------
(* The application: its mount effects, then any handler calls and reloads, *)
(* MaxOps of them at most. The search box and the sidebar stay as they    *)
(* start here; SpecFilter below exercises them.                            *)

Next ==
  \/ LoadNotesEffect
  \/ SaveNotesEffectOnMount
  \/ RenderLoaded
  \/ Reload
  \/ Tick
  \/ createNote
  \/ saveNote
  \/ \E noteId \in NoteIds : deleteNote(noteId)
  \/ \E noteId \in NoteIds : toggleStar(noteId)
  \/ \E noteId \in NoteIds : toggleArchive(noteId)
  \/ startEditing
  \/ cancelEditing
  \/ \E text \in Contents : setEditContent(text)
  \/ \E i \in 1..MaxNotes : selectNote(i)

Spec == Init /\ [][Next]_vars

----------------------------------------------------------------------------
(* The filter over note lists of every shape *)

\* contents of the notes the filter is applied to
FilterContents ==
  { EmptyString,
    << "A", "b" >>,
    << "#", "b", " ", "#", "B" >>,
    << "#", "a", "l", "l" >> }

\* a note as createNote and saveNote leave it, k-th of its list
filterNote(k, content, starred, archived) ==
  [ id |-> toString(k), title |-> deriveTitle(content), content |-> content,
    tags |-> extractTags(content), createdAt |-> 0, updatedAt |-> 0,
    isStarred |-> starred, isArchived |-> archived ]

FilterNoteLists ==
  UNION { { [k \in 1..n |-> filterNote(k, c[k], s[k], a[k])] :
              c \in [1..n -> FilterContents],
              s \in [1..n -> BOOLEAN],
              a \in [1..n -> BOOLEAN] } : n \in 0..MaxFilterNotes }

InitFilter ==
  /\ notes \in FilterNoteLists
  /\ selectedNote = Null
  /\ searchTerm = EmptyString
  /\ selectedTag = All
  /\ isEditing = FALSE
  /\ editContent = EmptyString
  /\ localStorage = saveNotesEffect(notes, Null)
  /\ now = 0
  /\ phase = "ready"
  /\ pending = Null
  /\ lastOp = Op("load", EmptyString)
  /\ deleted = {}
  /\ ops = 0
  /\ editOrigin = Null

\* the sidebar entries: the four built-in selectors and every tag of the notes
SidebarEntries == { All, Starred, Untagged, Archived } \cup allTags

NextFilter ==
  \/ \E term \in SearchTerms : setSearchTerm(term)
  \/ \E tag \in SidebarEntries : setSelectedTag(tag)

SpecFilter == InitFilter /\ [][NextFilter]_vars

----------------------------------------------------------------------------
(* The editor and the viewer over every short text *)

\* the characters of the texts
TextChars == { "#", "a", "A", "-", " ", "\n" }

\* every text of up to MaxTextLen characters
Texts == UNION { [1..n -> TextChars] : n \in 0..MaxTextLen }

\* the application after the welcome note was deleted and a note created:
\* that note is selected, the editor is open and holds a typed text
InitText ==
  /\ notes = << newNote(0) >>
  /\ selectedNote = newNote(0)
  /\ searchTerm = EmptyString
  /\ selectedTag = All
  /\ isEditing = TRUE
  /\ editContent \in Texts
  /\ localStorage = saveNotesEffect(notes, Null)
  /\ now = 0
  /\ phase = "ready"
  /\ pending = Null
  /\ lastOp = Other
  /\ deleted = { WelcomeId }
  /\ ops = 0
  /\ editOrigin = selectedNote.id

NextText ==
  \/ saveNote
  \/ startEditing
  \/ cancelEditing

SpecText == InitText /\ [][NextText]_vars

----------------------------------------------------------------------------
(* Startup over a store that holds a note list of any shape, the empty one  *)
(* included; the list is looked at and the page loaded again, no note is    *)
(* created, updated or deleted.                                             *)

InitStartup ==
  /\ notes = << >>
  /\ selectedNote = Null
  /\ searchTerm = EmptyString
  /\ selectedTag = All
  /\ isEditing = FALSE
  /\ editContent = EmptyString
  /\ localStorage \in { stringify(ns) : ns \in FilterNoteLists }
  /\ now = 0
  /\ phase = "mount"
  /\ pending = Null
  /\ lastOp = Op("mount", EmptyString)
  /\ deleted = {}
  /\ ops = 0
  /\ editOrigin = Null

NextStartup ==
  \/ LoadNotesEffect
  \/ SaveNotesEffectOnMount
  \/ RenderLoaded
  \/ Reload
  \/ \E i \in 1..MaxFilterNotes : selectNote(i)
  \/ startEditing
  \/ cancelEditing

SpecStartup == InitStartup /\ [][NextStartup]_vars

----------------------------------------------------------------------------
(* Properties of the note list and the store *)

\* the operations on the note list
NoteOps == { "createNote", "saveNote", "toggleStar", "toggleArchive", "deleteNote" }

\* the step just taken was the handler op
Handled(op) == ops' = ops + 1 /\ lastOp'.op = op

NoDuplicates(s) == \A i, j \in 1..Len(s) : i # j => s[i] # s[j]

\* C1: after every create, edit-save, star-toggle, archive-toggle or delete,
\* the value stored under "bear-notes" is the serialization of the whole
\* current note list.
C1_StoreHoldsCurrentList ==
  lastOp.op \in NoteOps => localStorage = stringify(notes)

\* C2: deletion is permanent: a list loaded from the store on a later start
\* holds no note that deleteNote removed.
C2_DeletionIsPermanent ==
  (phase = "ready" /\ lastOp.op = "load") => ids(notes) \cap deleted = {}

\* C3: every note's tags are exactly the lowercased #word tokens the tag
\* extractor finds in its content, each once.
C3_TagsAreTokensOfContent ==
  \A i \in 1..Len(notes) :
    /\ NoDuplicates(notes[i].tags)
    /\ Range(notes[i].tags) = Range(extractTags(notes[i].content))

\* C4: no two notes of the list have the same id.
C4_IdsAreUnique ==
  \A i, j \in 1..Len(notes) : i # j => notes[i].id # notes[j].id

\* the first index of the list whose note has the id
firstIndex(ns, noteId) == Min({ i \in 1..Len(ns) : ns[i].id = noteId })

\* C5: after deleteNote(id) the list holds no note with that id, and the
\* notes with any other id are all still there, unchanged and in their order.
C5_DeleteRemovesThatIdOnly ==
  [][ Handled("deleteNote") =>
        LET noteId == lastOp'.id
            others == { i \in 1..Len(notes) : notes[i].id # noteId }
        IN  /\ noteId \notin ids(notes')
            /\ Len(notes') = Cardinality(others)
            /\ \A k \in 1..Len(notes') : notes'[k] = notes[sorted(others)[k]] ]_vars

\* a delete has removed a note from a list that keeps another one
C5_Witness ==
  /\ lastOp.op = "deleteNote"
  /\ lastOp.id \in deleted
  /\ lastOp.id \notin ids(notes)
  /\ Len(notes) >= 1

\* the flag a toggle handler is about, and the one it is not
ToggledFlag(op) == IF op = "toggleStar" THEN "isStarred" ELSE "isArchived"
OtherFlag(op) == IF op = "toggleStar" THEN "isArchived" ELSE "isStarred"

\* C6: a star-toggle or archive-toggle of an id the list holds flips that
\* note's flag and changes nothing else but its updatedAt, which does not go
\* back; notes with another id, the length and the order stay as they are.
C6_ToggleChangesFlagAndUpdatedAtOnly ==
  [][ \A op \in { "toggleStar", "toggleArchive" } :
        (Handled(op) /\ lastOp'.id \in ids(notes)) =>
          LET noteId == lastOp'.id
              first == firstIndex(notes, noteId)
          IN  /\ Len(notes') = Len(notes)
              /\ notes'[first][ToggledFlag(op)] = ~notes[first][ToggledFlag(op)]
              /\ \A i \in 1..Len(notes) :
                   IF notes[i].id = noteId
                     THEN /\ DOMAIN notes'[i] = DOMAIN notes[i]
                          /\ \A f \in { "id", "content", "title", "tags",
                                        "createdAt", OtherFlag(op) } :
                               notes'[i][f] = notes[i][f]
                          /\ notes'[i].updatedAt >= notes[i].updatedAt
                     ELSE notes'[i] = notes[i] ]_vars

\* a toggle has acted on one of two notes, later than that note was made
C6_Witness ==
  /\ lastOp.op \in { "toggleStar", "toggleArchive" }
  /\ lastOp.id \in ids(notes)
  /\ Len(notes) = 2
  /\ notes[1].id # notes[2].id
  /\ find(notes, lastOp.id).updatedAt > find(notes, lastOp.id).createdAt

\* C7: a toggle, an update or a delete given an id the list does not hold
\* leaves the list and the selected note as they are and raises no error.
C7_UnknownIdIsNoOp ==
  [][ \A op \in { "saveNote", "toggleStar", "toggleArchive", "deleteNote" } :
        (Handled(op) /\ lastOp'.id \notin ids(notes)) =>
          /\ notes' = notes
          /\ selectedNote' = selectedNote
          /\ phase' = "ready" ]_vars

\* a toggle was given the id of a note deleted before, with a note selected
C7_Witness ==
  /\ lastOp.op \in { "toggleStar", "toggleArchive" }
  /\ lastOp.id \notin ids(notes)
  /\ lastOp.id \in deleted
  /\ Len(notes) >= 1
  /\ selectedNote # Null

\* C8: createNote puts at the front a note with empty content, the title
\* "Untitled Note", no tags, neither starred nor archived, createdAt and
\* updatedAt at the current time; the notes there before follow it unchanged.
C8_CreatePrependsEmptyNote ==
  [][ Handled("createNote") =>
        /\ Len(notes') = Len(notes) + 1
        /\ notes'[1].content = EmptyString
        /\ notes'[1].title = UntitledNote
        /\ notes'[1].tags = << >>
        /\ ~notes'[1].isStarred
        /\ ~notes'[1].isArchived
        /\ notes'[1].createdAt = now
        /\ notes'[1].updatedAt = now
        /\ \A i \in 1..Len(notes) : notes'[i + 1] = notes[i] ]_vars

\* a note was created in front of an older, edited one
C8_Witness ==
  /\ lastOp.op = "createNote"
  /\ Len(notes) = 2
  /\ notes[1].createdAt = now
  /\ notes[2].createdAt < now
  /\ notes[2].content # EmptyString

\* C13: on initialization an empty store gives a list of exactly one welcome
\* note, starred and not archived; a stored list gives exactly that list,
\* with no welcome note added.
C13_InitSeedsOrLoads ==
  [][ /\ (phase = "mount" /\ phase' = "loaded") =>
           IF localStorage = Null
             THEN /\ Len(pending'.notes) = 1
                  /\ pending'.notes[1].id = WelcomeId
                  /\ pending'.notes[1].isStarred
                  /\ ~pending'.notes[1].isArchived
             ELSE stringify(pending'.notes) = localStorage
      /\ (phase = "commit" /\ phase' = "ready") => notes' = pending.notes ]_vars

\* a stored list of two notes, none the welcome note, has been loaded
C13_Witness ==
  /\ phase = "ready"
  /\ lastOp.op = "load"
  /\ Len(notes) = 2
  /\ WelcomeId \notin ids(notes)
  /\ WelcomeId \in deleted

\* C14: a stored value that is no valid serialized note list does not make
\* initialization fail with an error.
C14_InvalidStoreDoesNotFail ==
  localStorage = InvalidJson => phase # "crashed"

\* instants with one, two and three digits of milliseconds
SampleInstants == { 0, 7, 10, 45, 100, 999 }

\* C15: a note list the application writes to the store comes back from
\* deserialization equal to the written one, note for note and in order,
\* every field equal and createdAt and updatedAt the same instants.
C15_RoundTrip ==
  /\ (phase = "ready" /\ Len(notes) > 0) => parseNotes(localStorage) = notes
  /\ lastOp.op = "load" =>
       \A t \in SampleInstants : newDate(toISOString(t)) = t

\* the store holds what was written for two notes, one of them updated at
\* a later instant than it was created
C15_Witness ==
  /\ phase = "ready"
  /\ Len(notes) = 2
  /\ localStorage = stringify(notes)
  /\ \E i \in 1..2 : notes[i].updatedAt > notes[i].createdAt
  /\ \E i \in 1..2 : notes[i].tags # << >>

\* the first line is empty once a leading # and the white space after it
\* are taken away
TitleLess(text) ==
  LET feeds == { i \in 1..Len(text) : text[i] = "\n" }
      last  == IF feeds = {} THEN Len(text) ELSE Min(feeds) - 1
  IN  \/ last = 0
      \/ /\ text[1] = "#"
         /\ \A k \in 2..last : text[k] \in WhiteSpace

\* C16: every note of the list has a non-empty title in every reachable
\* state, and an edit-save whose derived title would be empty stores
\* "Untitled Note" as the title.
C16_TitleIsNeverEmpty ==
  [][ /\ \A i \in 1..Len(notes') : notes'[i].title # EmptyString
      /\ (Handled("saveNote") /\ TitleLess(editContent)) =>
           \A i \in 1..Len(notes') :
             notes'[i].id = selectedNote.id => notes'[i].title = UntitledNote ]_vars

\* a note whose content starts with a bare heading mark was saved
C16_Witness ==
  /\ lastOp.op = "saveNote"
  /\ \E i \in 1..Len(notes) :
       /\ notes[i].id = lastOp.id
       /\ notes[i].content = << "#", " " >>
       /\ notes[i].title = UntitledNote

\* the fields of a note the user authors
Authored(note) ==
  << note.title, note.content, note.tags, note.isStarred, note.isArchived >>

\* C19: in every reachable state the selected note is none or carries the
\* id of a note of the list and has that entry's title, content, tags,
\* isStarred and isArchived.
C19_SelectedNoteMirrorsList ==
  selectedNote # Null =>
    \E i \in 1..Len(notes) :
      /\ notes[i].id = selectedNote.id
      /\ Authored(notes[i]) = Authored(selectedNote)

\* the selected note was created, saved with a text and then starred, next
\* to another note
C19_Witness ==
  /\ selectedNote # Null
  /\ Len(notes) = 2
  /\ selectedNote.id # WelcomeId
  /\ selectedNote.content # EmptyString
  /\ selectedNote.isStarred
  /\ lastOp = Op("toggleStar", selectedNote.id)

\* a handler step other than a note operation that closes the editor or
\* moves the selection: Cancel, or a click on an entry of the note list
ClosesOrSelects ==
  /\ ops' = ops + 1
  /\ lastOp' = Other
  /\ \/ isEditing /\ ~isEditing'
     \/ selectedNote' # selectedNote

\* C20: an edit-save never writes one note's buffer into another note. Each
\* note saveNote changes has the selected note's id, and the buffer it gets
\* was started for that id, by startEditing or empty at its creation;
\* cancelEditing and the selection of a note leave the list as it is.
C20_SaveWritesBufferOfSelectedNote ==
  [][ /\ Handled("saveNote") =>
           \A i \in 1..Len(notes) :
             notes'[i] # notes[i] =>
               /\ notes[i].id = selectedNote.id
               /\ editOrigin = selectedNote.id
               /\ notes'[i].content = editContent
      /\ ClosesOrSelects => notes' = notes /\ localStorage' = localStorage ]_vars

\* a note was created with the editor open, the welcome note then selected,
\* edited and saved with a text of its own
C20_Witness ==
  /\ lastOp.op = "saveNote"
  /\ Len(notes) = 2
  /\ editOrigin = WelcomeId
  /\ selectedNote.id = WelcomeId
  /\ selectedNote.content = editContent
  /\ editContent # WelcomeContent
  /\ \E i \in 1..2 : notes[i].id # WelcomeId /\ notes[i].content # editContent

----------------------------------------------------------------------------
(* Properties of the filter *)

\* s holds t as a substring when letter case is ignored
ContainsIgnoringCase(s, t) ==
  \E i \in 0..(Len(s) - Len(t)) :
    \A k \in 1..Len(t) : toLowerCaseChar(s[i + k]) = toLowerCaseChar(t[k])

\* the positive membership condition of a selector
IsMember(note, tag) ==
  CASE tag = All -> TRUE
    [] tag = Starred -> note.isStarred
    [] tag = Archived -> note.isArchived
    [] tag = Untagged -> note.tags = << >>
    [] OTHER -> tag \in Range(note.tags)

\* the search predicate: title, content or a tag holds the term
IsFound(note, term) ==
  \/ ContainsIgnoringCase(note.title, term)
  \/ ContainsIgnoringCase(note.content, term)
  \/ \E tag \in Range(note.tags) : ContainsIgnoringCase(tag, term)

\* C9: with an empty search term the selector "all" gives exactly the notes
\* that are not archived and "archived" exactly those that are, in list order.
C9_AllAndArchivedPartition ==
  searchTerm = EmptyString =>
    /\ selectedTag = All =>
         filteredNotes = SelectSeq(notes, LAMBDA note : ~note.isArchived)
    /\ selectedTag = Archived =>
         filteredNotes = SelectSeq(notes, LAMBDA note : note.isArchived)

\* "archived" is selected without a search term and shows one note of two
C9_Witness ==
  /\ searchTerm = EmptyString
  /\ selectedTag = Archived
  /\ Len(notes) = 2
  /\ Len(filteredNotes) = 1
  /\ filteredNotes[1] = notes[2]

\* C10: with a search term, every selector gives, in list order, exactly the
\* notes that meet its membership condition and hold the term in title,
\* content or a tag whatever the letter case, archived or not.
C10_SearchSpansArchived ==
  searchTerm # EmptyString =>
    filteredNotes =
      SelectSeq(notes, LAMBDA note :
                  IsMember(note, selectedTag) /\ IsFound(note, searchTerm))

\* "all" with a search term shows an archived note whose title holds the term
\* in another letter case
C10_Witness ==
  /\ searchTerm # EmptyString
  /\ selectedTag = All
  /\ \E i \in 1..Len(filteredNotes) :
       /\ filteredNotes[i].isArchived
       /\ ContainsIgnoringCase(filteredNotes[i].title, searchTerm)
       /\ ~includes(filteredNotes[i].title, searchTerm)

\* selectors no sidebar entry offers: a tag in another letter case, a tag no
\* note has
UnlistedSelectors == { << "B" >>, << "z" >> }

\* the notes a selector other than "all" and "archived" is to give when
\* nothing is searched: the unarchived ones that meet its condition
UnarchivedMembers(ns, tag) ==
  SelectSeq(ns, LAMBDA note : ~note.isArchived /\ IsMember(note, tag))

\* C11: with an empty search term a selector other than "all" and "archived"
\* gives, in list order, exactly the unarchived notes that are starred
\* ("starred"), have no tag ("untagged"), or hold the selector among their
\* tags letter for letter (any other string).
C11_OtherSelectorsGiveUnarchivedMembers ==
  /\ (searchTerm = EmptyString /\ selectedTag \notin { All, Archived }) =>
       filteredNotes = UnarchivedMembers(notes, selectedTag)
  /\ \A tag \in UnlistedSelectors :
       filterNotes(notes, tag, EmptyString) = UnarchivedMembers(notes, tag)

\* a tag is selected with nothing searched; of two notes that carry it the
\* archived one is left out
C11_Witness ==
  /\ searchTerm = EmptyString
  /\ selectedTag \in allTags
  /\ selectedTag \notin { All, Starred, Archived, Untagged }
  /\ Len(notes) = 2
  /\ \A i \in 1..2 : selectedTag \in Range(notes[i].tags)
  /\ Len(filteredNotes) = 1

\* C18: with an empty search term the count shown next to a sidebar entry,
\* one of the four built-in selectors or a tag of the notes, is the number
\* of notes the filtered list has when that entry is selected, whatever the
\* tag is named.
C18_CountsMatchFilteredList ==
  searchTerm = EmptyString =>
    /\ selectedTag = All => Len(filteredNotes) = allNotesCount
    /\ selectedTag = Starred => Len(filteredNotes) = starredCount
    /\ selectedTag = Untagged => Len(filteredNotes) = untaggedCount
    /\ selectedTag = Archived => Len(filteredNotes) = archivedCount
    /\ selectedTag \in allTags => Len(filteredNotes) = tagCount(selectedTag)

----------------------------------------------------------------------------
(* Properties of the tag extractor *)

\* the tokens of a text: each longest run of word characters and hyphens
\* that follows a #, lowercased
Tokens(text) ==
  { toLowerCase(SubSeq(text, i + 1, j)) :
      << i, j >> \in { p \in (1..Len(text)) \X (1..Len(text)) :
                         /\ text[p[1]] = "#"
                         /\ p[1] < p[2]
                         /\ \A k \in (p[1] + 1)..p[2] : text[k] \in TagChars
                         /\ (p[2] = Len(text) \/ text[p[2] + 1] \notin TagChars) } }

\* C12: extractTags gives the lowercased tokens of the longest matches of #
\* and word characters or hyphens in the text, each tag once; here for the
\* text an edit-save has just extracted the tags of.
C12_ExtractGivesEachTokenOnce ==
  lastOp.op = "saveNote" =>
    LET saved == find(notes, lastOp.id)
    IN  /\ Range(saved.tags) = Tokens(saved.content)
        /\ NoDuplicates(saved.tags)

----------------------------------------------------------------------------
(* Properties of the renderer *)

\* what the viewer shows of the selected note
viewer == renderContent(selectedNote.content)

\* the number of lines of a text
LineCount(text) == Cardinality({ i \in 1..Len(text) : text[i] = "\n" }) + 1

\* the k-th line of a text: from after its (k-1)-th line feed up to the next
Line(text, k) ==
  LET feeds == { i \in 1..Len(text) : text[i] = "\n" }
      first == IF k = 1 THEN 1
               ELSE 1 + CHOOSE i \in feeds :
                          Cardinality({ j \in feeds : j < i }) = k - 2
      after == { i \in feeds : i >= first }
      last  == IF after = {} THEN Len(text) ELSE Min(after) - 1
  IN  [i \in 1..(last - first + 1) |-> text[first + i - 1]]

HasPrefix(line, prefix) ==
  /\ Len(line) >= Len(prefix)
  /\ \A i \in 1..Len(prefix) : line[i] = prefix[i]

Remainder(line, prefix) ==
  [i \in 1..(Len(line) - Len(prefix)) |-> line[Len(prefix) + i]]

\* the block is the one the first matching rule gives the line
BlockOfLine(block, line) ==
  IF HasPrefix(line, << "#", " " >>)
    THEN block = [ type |-> "h1", text |-> Remainder(line, << "#", " " >>) ]
  ELSE IF HasPrefix(line, << "#", "#", " " >>)
    THEN block = [ type |-> "h2", text |-> Remainder(line, << "#", "#", " " >>) ]
  ELSE IF HasPrefix(line, << "#", "#", "#", " " >>)
    THEN block = [ type |-> "h3", text |-> Remainder(line, << "#", "#", "#", " " >>) ]
  ELSE IF HasPrefix(line, << "-", " " >>)
    THEN block = [ type |-> "li", text |-> Remainder(line, << "-", " " >>) ]
  ELSE IF \A i \in 1..Len(line) : line[i] \in WhiteSpace
    THEN block.type = "br"
  ELSE block.type = "p"

\* C17: rendering a text gives exactly one block per line of the text, in
\* line order, each chosen by the first rule that matches its line: "# "
\* a level-1 heading, "## " a level-2 heading, "### " a level-3 heading,
\* "- " a list item, each with the rest of the line as text; an empty or
\* white-space-only line a line break; any other line a paragraph.
C17_RenderGivesOneBlockPerLine ==
  (selectedNote # Null /\ ~isEditing) =>
    /\ Len(viewer) = LineCount(selectedNote.content)
    /\ \A k \in 1..Len(viewer) :
         BlockOfLine(viewer[k], Line(selectedNote.content, k))

\* the viewer shows a saved text of two lines, a level-2 heading and an
\* empty line
C17_Witness ==
  /\ selectedNote # Null
  /\ ~isEditing
  /\ lastOp.op = "saveNote"
  /\ selectedNote.content = << "#", "#", " ", "\n" >>
  /\ viewer = << [ type |-> "h2", text |-> EmptyString ], [ type |-> "br" ] >>

----------------------------------------------------------------------------
(* Properties of startup *)

\* the store holds a serialized note list
HoldsList(saved) == saved # Null /\ saved # InvalidJson

\* C21: startup never loses stored data. When the store holds a serialized
\* note list, every step up to the first create, update or delete leaves a
\* value in the store that deserializes to the same list; the save effect
\* of the first render, which sees the empty list, leaves the store as it
\* is; the list the load puts on the screen is the stored one.
C21_StartupKeepsStoredList ==
  [][ HoldsList(localStorage) =>
        /\ ~(ops' = ops + 1 /\ lastOp'.op \in NoteOps) =>
             /\ HoldsList(localStorage')
             /\ parseNotes(localStorage') = parseNotes(localStorage)
        /\ (phase = "loaded" /\ phase' = "commit") => localStorage' = localStorage
        /\ (phase = "commit" /\ phase' = "ready") =>
             notes' = parseNotes(localStorage) ]_vars

\* a stored list of two notes is on the screen after the page was loaded a
\* second time, and the store still holds it
C21_Witness ==
  /\ phase = "ready"
  /\ lastOp.op = "load"
  /\ ops > 0
  /\ Len(notes) = 2
  /\ HoldsList(localStorage)
  /\ parseNotes(localStorage) = notes

====
